---- MODULE Spec2Model ----
(***************************************************************************)
(* A model of mmaction/models/recognizers/base.py: BaseRecognizer's loss   *)
(* parsing (_parse_losses, alone and under torch.distributed), its         *)
(* dispatch (forward), its step adapters (train_step, val_step) and its    *)
(* test-time clip averaging (average_clip).                                *)
(*                                                                         *)
(* Numbers are exact rationals <<n, d>> in lowest terms (d > 0): the       *)
(* floating-point rounding of the tensor library is not modelled.          *)
(***************************************************************************)
EXTENDS Integers, Sequences, FiniteSets, TLC

\* ------------------------------------------------------------------ bounds
\* Input tensors are <<a>> and <<a, a + 1>> for a in 1..MaxElem.
MaxElem == 2
\* Largest number of entries of a loss bundle.
MaxEntries == 2
\* Number of worker processes under distributed execution.
NumWorkers == 2
\* Largest number of samples of a field of a batch record.
MaxBatch == 2
\* Largest number of clips and of classes of a score tensor.
MaxClips == 2
MaxClasses == 2

\* -------------------------------------------------------------- arithmetic
RECURSIVE GCD(_, _)
GCD(a, b) == IF b = 0 THEN a ELSE GCD(b, a % b)

RNorm(n, d) ==
    LET g == GCD(n, d) IN <<n \div g, d \div g>>

RInt(k) == <<k, 1>>

RAdd(a, b) == RNorm(a[1] * b[2] + b[1] * a[2], a[2] * b[2])

RDivInt(a, k) == RNorm(a[1], a[2] * k)

RDiv(a, b) == RNorm(a[1] * b[2], a[2] * b[1])

RECURSIVE RSum(_)
RSum(s) == IF s = <<>> THEN RInt(0) ELSE RAdd(Head(s), RSum(Tail(s)))

RECURSIVE SeqSum(_)
SeqSum(s) == IF s = <<>> THEN 0 ELSE Head(s) + SeqSum(Tail(s))

\* ------------------------------------------------------------ Python values
\* A 0-dim tensor, a Python int (what sum() of nothing is) and a Python float
\* (what Tensor.item() returns), each with its exact value.
Tensor0(r) == [ty |-> "tensor", v |-> r]
PyInt(k) == [ty |-> "int", v |-> RInt(k)]
PyFloat(r) == [ty |-> "float", v |-> r]

\* int + int is an int; anything + tensor is a tensor.
PyAdd(a, b) ==
    [ty |-> IF a.ty = "tensor" \/ b.ty = "tensor" THEN "tensor" ELSE "int",
     v |-> RAdd(a.v, b.v)]

\* Tensor.mean() of a non-empty tensor given by its elements.
TensorMean(t) == Tensor0(RNorm(SeqSum(t), Len(t)))

\* sum(_loss.mean() for _loss in loss_value): Python's sum starts from int 0.
RECURSIVE SumOfMeans(_)
SumOfMeans(ts) ==
    IF ts = <<>> THEN PyInt(0)
    ELSE PyAdd(SumOfMeans(SubSeq(ts, 1, Len(ts) - 1)), TensorMean(ts[Len(ts)]))

\* ------------------------------------------------------------------- names
\* Names are character sequences, so that 'loss' in _key is a substring test.
N_loss == <<"l", "o", "s", "s">>
N_loss_cls == <<"l", "o", "s", "s", "_", "c">>
N_aux_loss == <<"a", "_", "l", "o", "s", "s">>
N_acc == <<"a", "c", "c">>
Names == {N_loss, N_loss_cls, N_aux_loss, N_acc}

\* Python's `pat in s` on strings.
Contains(pat, s) ==
    \E i \in 1..(Len(s) - Len(pat) + 1) : SubSeq(s, i, i + Len(pat) - 1) = pat

\* 'loss' in _key
InLossKey(key) == Contains(N_loss, key)

\* ------------------------------------------------------------ ordered dicts
\* An OrderedDict is a sequence of [name, val] items with distinct names.
DictKeys(d) == {d[i].name : i \in 1..Len(d)}

\* d[k] = v: an existing key keeps its place, a new key goes last.
DictSet(d, k, v) ==
    IF k \in DictKeys(d)
    THEN [i \in 1..Len(d) |-> IF d[i].name = k THEN [name |-> k, val |-> v] ELSE d[i]]
    ELSE Append(d, [name |-> k, val |-> v])

\* --------------------------------------------------------------- the inputs
\* A loss bundle (the dict forward_train returns) is a sequence of entries with
\* distinct names.  An entry is a tensor (data = <<its elements>>), a list of
\* tensors, possibly empty (data = the tensors), or any other object
\* (data = <<>>).  Lists holding something else than tensors are not among
\* the inputs.
TensorInputs == {<<a>> : a \in 1..MaxElem} \cup {<<a, a + 1>> : a \in 1..MaxElem}

ListInputs == {<<>>, << <<1>>, <<1, 2>> >>}

EntryValues ==
    {[kind |-> "tensor", data |-> <<t>>] : t \in TensorInputs}
        \cup {[kind |-> "list", data |-> l] : l \in ListInputs}
        \cup {[kind |-> "other", data |-> <<>>]}

Entry(n, x) == [name |-> n, kind |-> x.kind, data |-> x.data]

BundlesOver(names, values) ==
    UNION {{b \in [1..k -> {Entry(n, x) : n \in names, x \in values}] :
              \A i, j \in 1..k : i # j => b[i].name # b[j].name} : k \in 0..MaxEntries}

Bundles == BundlesOver(Names, EntryValues)

\* What the workers of a distributed run are given: a smaller family, with two
\* names (one that counts as a loss, one that does not), two tensors, and an
\* object of another type under the second name only.
DistValues ==
    {[kind |-> "tensor", data |-> <<t>>] : t \in {<<1>>, <<1, 2>>}}
        \cup {[kind |-> "other", data |-> <<>>]}

DistBundles ==
    {b \in BundlesOver({N_loss_cls, N_acc}, DistValues) :
        \A i \in 1..Len(b) : b[i].kind = "other" => b[i].name = N_acc}

Procs == 1..NumWorkers

\* ------------------------------------------------------------------- state
VARIABLES
    initialized,  \* dist.is_available() and dist.is_initialized()
    world_size,   \* dist.get_world_size(); 1 when not distributed
    pc,           \* per worker: where its _parse_losses call is
    losses,       \* per worker: the bundle passed to _parse_losses
    log_vars,     \* per worker: the OrderedDict log_vars
    loss,         \* per worker: the local variable loss (the returned total)
    idx,          \* per worker: position of the second loop in log_vars
    sent,         \* per worker: the values it has given to all_reduce, in call order
    err_name      \* per worker: the name in the TypeError message

parseVars == <<initialized, world_size, pc, losses, log_vars, loss, idx, sent, err_name>>

\* The last call made on the recognizer: forward, train_step or val_step.
VARIABLES
    op,        \* which method was called ("none" before any call)
    args,      \* its arguments
    invoked,   \* the methods it invoked, in order, with their arguments
    outcome,   \* "returned" or the exception raised
    outputs    \* what it returned

stepVars == <<op, args, invoked, outcome, outputs>>

\* average_clip: the recognizer's test_cfg, the scores given, what came out.
VARIABLES
    test_cfg,      \* self.test_cfg: None or a dict
    cls_score,     \* the argument: clips x classes
    clip_outcome,  \* "none" before the call, "returned" or the exception raised
    clip_result    \* the tensor returned

clipVars == <<test_cfg, cls_score, clip_outcome, clip_result>>

vars == <<parseVars, stepVars, clipVars>>

NoValue == <<>>

\* self.test_cfg = test_cfg, with test_cfg=None the default.
NoneCfg == [isNone |-> TRUE, items |-> {}]

StepIdle ==
    /\ op = "none"
    /\ args = NoValue
    /\ invoked = <<>>
    /\ outcome = "none"
    /\ outputs = NoValue

ClipIdle ==
    /\ test_cfg = NoneCfg
    /\ cls_score = <<>>
    /\ clip_outcome = "none"
    /\ clip_result = <<>>

Unset == [ty |-> "unset", v |-> RInt(0)]
NoName == <<>>

Active == 1..world_size

\* ------------------------------------------------------------ _parse_losses
\* log_vars[loss_name] = loss_value.mean() / sum(_loss.mean() ...) of one entry.
ReduceEntry(e) ==
    IF e.kind = "tensor" THEN TensorMean(e.data[1]) ELSE SumOfMeans(e.data)

\* A first loop without its else branch: an entry of another type is left out.
RECURSIVE FirstLoop_SkipOther(_)
FirstLoop_SkipOther(b) ==
    IF b = <<>> THEN [raised |-> "none", at |-> NoName, log_vars |-> <<>>]
    ELSE LET before == FirstLoop_SkipOther(SubSeq(b, 1, Len(b) - 1))
             e == b[Len(b)]
         IN  IF e.kind \notin {"tensor", "list"} THEN before
             ELSE [before EXCEPT !.log_vars = DictSet(@, e.name, ReduceEntry(e))]

\* The first loop: every entry reduced in order, TypeError at the first entry
\* that is neither a tensor nor a list.
RECURSIVE FirstLoop(_)
FirstLoop(b) ==
    IF b = <<>> THEN [raised |-> "none", at |-> NoName, log_vars |-> <<>>]
    ELSE LET before == FirstLoop(SubSeq(b, 1, Len(b) - 1))
             e == b[Len(b)]
         IN  IF before.raised # "none" THEN before
             ELSE IF e.kind \notin {"tensor", "list"}
                  THEN [raised |-> "TypeError", at |-> e.name, log_vars |-> <<>>]
                  ELSE [before EXCEPT
                           !.log_vars = DictSet(@, e.name, ReduceEntry(e))]

\* A total without the filter on the key: every value summed.
RECURSIVE TotalLoss_All(_)
TotalLoss_All(d) ==
    IF d = <<>> THEN PyInt(0)
    ELSE PyAdd(TotalLoss_All(SubSeq(d, 1, Len(d) - 1)), d[Len(d)].val)

\* loss = sum(_value for _key, _value in log_vars.items() if 'loss' in _key)
RECURSIVE TotalLoss(_)
TotalLoss(d) ==
    IF d = <<>> THEN PyInt(0)
    ELSE LET rest == TotalLoss(SubSeq(d, 1, Len(d) - 1))
             it == d[Len(d)]
         IN  IF InLossKey(it.name) THEN PyAdd(rest, it.val) ELSE rest

\* loss_value.item(): a tensor gives a float, an int has no such attribute.
Item(x) == IF x.ty = "tensor" THEN PyFloat(x.v) ELSE [ty |-> "AttributeError", v |-> x.v]

\* The second loop when not distributed: every value replaced by its .item().
RECURSIVE SecondLoop(_, _)
SecondLoop(d, i) ==
    IF i > Len(d) THEN [raised |-> "none", log_vars |-> d]
    ELSE LET x == Item(d[i].val)
         IN  IF x.ty = "AttributeError"
             THEN [raised |-> "AttributeError", log_vars |-> d]
             ELSE SecondLoop(DictSet(d, d[i].name, x), i + 1)

\* The check of the distributed state left out: never a collective.
UseCollective_Never == FALSE

\* if dist.is_available() and dist.is_initialized()
UseCollective == initialized

\* Without the clone, the buffer of the entry 'loss' is the tensor loss.
BufferIsLoss_NoClone(name) == name = N_loss

\* loss_value = loss_value.data.clone(): whether the buffer the collective
\* writes in place is the storage of the local variable loss.  log_vars['loss']
\* is the tensor loss itself, and the clone gives the buffer storage of its own.
BufferIsLoss(name) == FALSE

\* Without the division, all_reduce leaves the sum, not the mean.
DivByWorldSize_None(x, n) == x

\* loss_value.div_(dist.get_world_size())
DivByWorldSize(x, n) == RDivInt(x, n)

\* A worker calls _parse_losses(losses[w]).
ParseLosses(w) ==
    /\ pc[w] = "start"
    /\ LET fl == FirstLoop(losses[w])
           total == TotalLoss(fl.log_vars)
           lv == DictSet(fl.log_vars, N_loss, total)
           sl == SecondLoop(lv, 1)
       IN  IF fl.raised = "TypeError"
           THEN /\ pc' = [pc EXCEPT ![w] = "TypeError"]
                /\ err_name' = [err_name EXCEPT ![w] = fl.at]
                /\ UNCHANGED <<log_vars, loss, idx>>
           ELSE /\ loss' = [loss EXCEPT ![w] = total]
                /\ UNCHANGED err_name
                /\ IF UseCollective
                   THEN /\ pc' = [pc EXCEPT ![w] = "loop"]
                        /\ log_vars' = [log_vars EXCEPT ![w] = lv]
                        /\ idx' = [idx EXCEPT ![w] = 1]
                   ELSE /\ pc' = [pc EXCEPT ![w] =
                                     IF sl.raised = "none" THEN "returned"
                                     ELSE sl.raised]
                        /\ log_vars' = [log_vars EXCEPT ![w] = sl.log_vars]
                        /\ idx' = [idx EXCEPT ![w] = Len(lv) + 1]
    /\ UNCHANGED <<initialized, world_size, losses, sent, stepVars, clipVars>>

\* Distributed, second loop, one entry: clone, div_ by the world size and hand
\* the value to all_reduce (which blocks), or AttributeError on an int.
AllReduceCall(w) ==
    /\ pc[w] = "loop"
    /\ LET it == log_vars[w][idx[w]]
           buf == DivByWorldSize(it.val.v, world_size)
       IN  IF it.val.ty # "tensor"
           THEN /\ pc' = [pc EXCEPT ![w] = "AttributeError"]
                /\ UNCHANGED <<sent, loss>>
           ELSE /\ pc' = [pc EXCEPT ![w] = "all_reduce"]
                /\ sent' = [sent EXCEPT ![w] = Append(@, buf)]
                /\ loss' = [loss EXCEPT ![w] =
                               IF BufferIsLoss(it.name)
                               THEN Tensor0(buf) ELSE @]
    /\ UNCHANGED <<initialized, world_size, losses, log_vars, idx, err_name>>
    /\ UNCHANGED <<stepVars, clipVars>>

\* The sum all_reduce leaves in every worker's buffer for its k-th collective.
RECURSIVE ReducedSum(_, _, _)
ReducedSum(s, k, n) ==
    IF n = 0 THEN RInt(0) ELSE RAdd(ReducedSum(s, k, n - 1), s[n][k])

\* all_reduce returns once every worker of the group has made its k-th call;
\* then log_vars[loss_name] = loss_value.item() and the loop goes on.
AllReduceReturn(w) ==
    /\ pc[w] = "all_reduce"
    /\ LET k == Len(sent[w])
           it == log_vars[w][idx[w]]
       IN  /\ \A v \in Active : Len(sent[v]) >= k
           /\ LET s == ReducedSum(sent, k, world_size)
              IN  /\ log_vars' = [log_vars EXCEPT ![w] = DictSet(@, it.name, PyFloat(s))]
                  /\ loss' = [loss EXCEPT ![w] =
                                 IF BufferIsLoss(it.name)
                                 THEN Tensor0(s) ELSE @]
    /\ idx' = [idx EXCEPT ![w] = @ + 1]
    /\ pc' = [pc EXCEPT ![w] = IF idx[w] = Len(log_vars[w]) THEN "returned" ELSE "loop"]
    /\ UNCHANGED <<initialized, world_size, losses, sent, err_name, stepVars, clipVars>>

\* A worker that diverges: it never executes this step.
SkipStep(w) ==
    /\ initialized
    /\ pc[w] = "start"
    /\ pc' = [pc EXCEPT ![w] = "skipped"]
    /\ UNCHANGED <<initialized, world_size, losses, log_vars, loss, idx, sent, err_name>>
    /\ UNCHANGED <<stepVars, clipVars>>

InitParse ==
    /\ initialized \in BOOLEAN
    /\ world_size = IF initialized THEN NumWorkers ELSE 1
    /\ IF initialized
       THEN losses \in [Procs -> DistBundles]
       ELSE losses \in {[w \in Procs |-> IF w = 1 THEN b ELSE <<>>] : b \in Bundles}
    /\ pc = [w \in Procs |-> IF w <= world_size THEN "start" ELSE "absent"]
    /\ log_vars = [w \in Procs |-> <<>>]
    /\ loss = [w \in Procs |-> Unset]
    /\ idx = [w \in Procs |-> 0]
    /\ sent = [w \in Procs |-> <<>>]
    /\ err_name = [w \in Procs |-> NoName]
    /\ StepIdle
    /\ ClipIdle

NextParse ==
    \E w \in Procs :
        \/ ParseLosses(w)
        \/ AllReduceCall(w)
        \/ AllReduceReturn(w)
        \/ SkipStep(w)

SpecParse == InitParse /\ [][NextParse]_vars

\* ------------------------------------------------- forward and the steps
\* A batch tensor is known by its number of samples; None is no tensor.
T(n) == [ty |-> "tensor", len |-> n]
None_ == [ty |-> "None", len |-> 0]

\* _parse_losses as a whole when not distributed: (loss, log_vars) or the
\* exception raised.
ParseLossesLocal(b) ==
    LET fl == FirstLoop(b)
        total == TotalLoss(fl.log_vars)
        sl == SecondLoop(DictSet(fl.log_vars, N_loss, total), 1)
    IN  IF fl.raised # "none"
        THEN [raised |-> fl.raised, loss |-> Unset, log_vars |-> <<>>]
        ELSE IF sl.raised # "none"
             THEN [raised |-> sl.raised, loss |-> Unset, log_vars |-> <<>>]
             ELSE [raised |-> "none", loss |-> total, log_vars |-> sl.log_vars]

\* A forward without the check of the label.
Forward_NoLabelCheck(imgs, label, return_loss, trainOut, testOut) ==
    IF return_loss
    THEN [raised |-> "none",
          invoked |-> <<[fn |-> "forward_train", args |-> <<imgs, label>>]>>,
          value |-> trainOut]
    ELSE [raised |-> "none",
          invoked |-> <<[fn |-> "forward_test", args |-> <<imgs>>]>>,
          value |-> testOut]

\* forward(imgs, label, return_loss); trainOut and testOut are what the
\* subclass's forward_train and forward_test return when called.
Forward(imgs, label, return_loss, trainOut, testOut) ==
    IF return_loss
    THEN IF label = None_
         THEN [raised |-> "ValueError", invoked |-> <<>>, value |-> NoValue]
         ELSE [raised |-> "none",
               invoked |-> <<[fn |-> "forward_train", args |-> <<imgs, label>>]>>,
               value |-> trainOut]
    ELSE [raised |-> "none",
          invoked |-> <<[fn |-> "forward_test", args |-> <<imgs>>]>>,
          value |-> testOut]

\* data_batch[key]
BatchGet(batch, key) == batch[CHOOSE i \in 1..Len(batch) : batch[i].key = key].val

\* The batch size read from the images.
NumSamples_OfImgs(batch) == BatchGet(batch, "imgs").len

\* len(next(iter(data_batch.values())))
NumSamples(batch) == batch[1].val.len

\* What forward_test returns for imgs: the results of those images.
TestOutput(imgs) == [results_of |-> imgs]

\* A call of forward from outside.
CallForward(imgs, label, return_loss, trainOut) ==
    LET r == Forward(imgs, label, return_loss, trainOut, TestOutput(imgs))
    IN  /\ op' = "forward"
        /\ args' = [imgs |-> imgs, label |-> label, return_loss |-> return_loss]
        /\ invoked' = r.invoked
        /\ outcome' = IF r.raised = "none" THEN "returned" ELSE r.raised
        /\ outputs' = r.value

\* train_step(data_batch, optimizer), not distributed.
TrainStep(batch, trainOut) ==
    LET imgs == BatchGet(batch, "imgs")
        label == BatchGet(batch, "label")
        f == Forward(imgs, label, TRUE, trainOut, TestOutput(imgs))
        fcall == [fn |-> "forward", args |-> <<imgs, label, TRUE>>]
        p == ParseLossesLocal(f.value)
        pcall == [fn |-> "_parse_losses", args |-> <<f.value>>]
    IN  /\ op' = "train_step"
        /\ args' = [data_batch |-> batch]
        /\ IF f.raised # "none"
           THEN /\ invoked' = <<fcall>> \o f.invoked
                /\ outcome' = f.raised
                /\ outputs' = NoValue
           ELSE /\ invoked' = <<fcall>> \o f.invoked \o <<pcall>>
                /\ IF p.raised # "none"
                   THEN /\ outcome' = p.raised
                        /\ outputs' = NoValue
                   ELSE /\ outcome' = "returned"
                        /\ outputs' = [loss |-> p.loss,
                                       log_vars |-> p.log_vars,
                                       num_samples |-> NumSamples(batch)]

\* val_step(data_batch, optimizer)
ValStep(batch) ==
    LET imgs == BatchGet(batch, "imgs")
        f == Forward(imgs, None_, FALSE, NoValue, TestOutput(imgs))
        fcall == [fn |-> "forward", args |-> <<imgs, None_, FALSE>>]
    IN  /\ op' = "val_step"
        /\ args' = [data_batch |-> batch]
        /\ invoked' = <<fcall>> \o f.invoked
        /\ outcome' = IF f.raised = "none" THEN "returned" ELSE f.raised
        /\ outputs' = IF f.raised = "none" THEN [results |-> f.value] ELSE NoValue

\* The batch records: the fields imgs and label, perhaps a third, in any order.
BatchValues(key) ==
    {T(n) : n \in 1..MaxBatch} \cup (IF key = "label" THEN {None_} ELSE {})

Batches ==
    UNION {{b \in [1..k -> UNION {{[key |-> x, val |-> v] : v \in BatchValues(x)} :
                                    x \in {"imgs", "label", "meta"}}] :
              /\ \A i, j \in 1..k : i # j => b[i].key # b[j].key
              /\ {"imgs", "label"} \subseteq {b[i].key : i \in 1..k}} : k \in 2..3}

ParseIdle ==
    /\ initialized = FALSE
    /\ world_size = 1
    /\ pc = [w \in Procs |-> "absent"]
    /\ losses = [w \in Procs |-> <<>>]
    /\ log_vars = [w \in Procs |-> <<>>]
    /\ loss = [w \in Procs |-> Unset]
    /\ idx = [w \in Procs |-> 0]
    /\ sent = [w \in Procs |-> <<>>]
    /\ err_name = [w \in Procs |-> NoName]

InitStep == ParseIdle /\ StepIdle /\ ClipIdle

\* One call on a recognizer just constructed, with any arguments.
DoForward ==
    /\ op = "none"
    /\ \E imgs \in BatchValues("imgs"), label \in BatchValues("label"),
          return_loss \in BOOLEAN, trainOut \in DistBundles :
            CallForward(imgs, label, return_loss, trainOut)
    /\ UNCHANGED <<parseVars, clipVars>>

DoTrainStep ==
    /\ op = "none"
    /\ \E batch \in Batches, trainOut \in DistBundles : TrainStep(batch, trainOut)
    /\ UNCHANGED <<parseVars, clipVars>>

DoValStep ==
    /\ op = "none"
    /\ \E batch \in Batches : ValStep(batch)
    /\ UNCHANGED <<parseVars, clipVars>>

NextStep == DoForward \/ DoTrainStep \/ DoValStep

SpecStep == InitStep /\ [][NextStep]_vars

\* ------------------------------------------------------------ average_clip
\* A score tensor is a sequence of clips, each a sequence of class scores.
\* The exponential of softmax is taken to base 2 on whole scores (there are no
\* reals here): which axis is normalised, and whether before or after the
\* mean, shows as it does with base e.
Exp(r) == RInt(2 ^ r[1])

NClips(t) == Len(t)
NClasses(t) == Len(t[1])

\* F.softmax(t, dim=dim) of a 2-d tensor.
Softmax(t, dim) ==
    [i \in 1..NClips(t) |->
        [j \in 1..NClasses(t) |->
            RDiv(Exp(t[i][j]),
                 IF dim = 1
                 THEN RSum([jj \in 1..NClasses(t) |-> Exp(t[i][jj])])
                 ELSE RSum([ii \in 1..NClips(t) |-> Exp(t[ii][j])]))]]

\* t.mean(dim=dim, keepdim=True) of a 2-d tensor.
MeanKeepdim(t, dim) ==
    IF dim = 0
    THEN <<[j \in 1..NClasses(t) |->
              RDivInt(RSum([i \in 1..NClips(t) |-> t[i][j]]), NClips(t))]>>
    ELSE [i \in 1..NClips(t) |->
              <<RDivInt(RSum([j \in 1..NClasses(t) |-> t[i][j]]), NClasses(t))>>]

Str(x) == [ty |-> "str", s |-> x]
PyNone == [ty |-> "None", s |-> ""]

CfgKeys(cfg) == {it.key : it \in cfg.items}

CfgGet(cfg, k) == (CHOOSE it \in cfg.items : it.key = k).val

\* average_clip with the softmax over the clips instead of the classes.
AverageClip_SoftmaxOverClips(cfg, score) ==
    IF cfg.isNone THEN [raised |-> "AttributeError", value |-> <<>>]
    ELSE IF "average_clips" \notin CfgKeys(cfg)
    THEN [raised |-> "KeyError", value |-> <<>>]
    ELSE LET average_clips == CfgGet(cfg, "average_clips")
         IN  IF average_clips \notin {Str("score"), Str("prob"), PyNone}
             THEN [raised |-> "ValueError", value |-> <<>>]
             ELSE IF average_clips = Str("prob")
             THEN [raised |-> "none", value |-> MeanKeepdim(Softmax(score, 0), 0)]
             ELSE IF average_clips = Str("score")
             THEN [raised |-> "none", value |-> MeanKeepdim(score, 0)]
             ELSE [raised |-> "none", value |-> score]

\* average_clip(cls_score) on a recognizer whose test_cfg is cfg.
AverageClip(cfg, score) ==
    IF cfg.isNone THEN [raised |-> "AttributeError", value |-> <<>>]
    ELSE IF "average_clips" \notin CfgKeys(cfg)
    THEN [raised |-> "KeyError", value |-> <<>>]
    ELSE LET average_clips == CfgGet(cfg, "average_clips")
         IN  IF average_clips \notin {Str("score"), Str("prob"), PyNone}
             THEN [raised |-> "ValueError", value |-> <<>>]
             ELSE IF average_clips = Str("prob")
             THEN [raised |-> "none", value |-> MeanKeepdim(Softmax(score, 1), 0)]
             ELSE IF average_clips = Str("score")
             THEN [raised |-> "none", value |-> MeanKeepdim(score, 0)]
             ELSE [raised |-> "none", value |-> score]

DoAverageClip ==
    /\ clip_outcome = "none"
    /\ LET r == AverageClip(test_cfg, cls_score)
       IN  /\ clip_outcome' = IF r.raised = "none" THEN "returned" ELSE r.raised
           /\ clip_result' = r.value
    /\ UNCHANGED <<test_cfg, cls_score, parseVars, stepVars>>

\* The test configurations: the default None, and dicts with or without the
\* key average_clips (set to an allowed or to another value) and another key.
ClipSettings == {Str("score"), Str("prob"), PyNone, Str("max")}

OtherItems == {{}, {[key |-> "max_testing_views", val |-> Str("4")]}}

TestCfgs ==
    {NoneCfg}
        \cup {[isNone |-> FALSE, items |-> o] : o \in OtherItems}
        \cup {[isNone |-> FALSE, items |-> o \cup {[key |-> "average_clips", val |-> v]}] :
                o \in OtherItems, v \in ClipSettings}

ScoreInputs == {RInt(0), RInt(1)}

ScoreTensors ==
    UNION {[1..n -> [1..c -> ScoreInputs]] : n \in 1..MaxClips, c \in 1..MaxClasses}

InitClip ==
    /\ ParseIdle
    /\ StepIdle
    /\ test_cfg \in TestCfgs
    /\ cls_score \in ScoreTensors
    /\ clip_outcome = "none"
    /\ clip_result = <<>>

NextClip == DoAverageClip

SpecClip == InitClip /\ [][NextClip]_vars

\* ================================================================== claims
\* What the specification says of a bundle, written from its words.
LossNames == {N_loss, N_loss_cls, N_aux_loss}

\* The mean of a tensor; the sum of the means of a list.
EntryValue(e) ==
    RSum([i \in 1..Len(e.data) |-> RNorm(SeqSum(e.data[i]), Len(e.data[i]))])

ExpectedTotal(b) ==
    RSum([i \in 1..Len(b) |->
            IF b[i].name \in LossNames THEN EntryValue(b[i]) ELSE RInt(0)])

TensorsAndLists(b) == \A i \in 1..Len(b) : b[i].kind \in {"tensor", "list"}

NameSeq(b) == [i \in 1..Len(b) |-> b[i].name]

NameSet(b) == {b[i].name : i \in 1..Len(b)}

\* The worker-local reduced value of a name: the total for 'loss', else the
\* value of the entry of that name.
LocalValue(b, n) ==
    IF n = N_loss THEN ExpectedTotal(b)
    ELSE EntryValue(b[CHOOSE i \in 1..Len(b) : b[i].name = n])

\* The arithmetic mean over the workers of the local value of a name.
WorkerMean(n) ==
    RDivInt(RSum([w \in 1..world_size |-> LocalValue(losses[w], n)]), world_size)

PastFirstLoop(w) == pc[w] \in {"loop", "all_reduce", "returned", "AttributeError"}

\* C1: for a bundle of tensors and lists of tensors, the total (the local
\* variable loss once computed, which is what the call returns) is the sum of
\* the reduced values of exactly the entries whose name contains "loss".
C1_TotalIsSumOfLossEntries ==
    \A w \in Procs :
        PastFirstLoop(w) =>
            /\ TensorsAndLists(losses[w])
            /\ loss[w].ty \in {"tensor", "int"}
            /\ loss[w].v = ExpectedTotal(losses[w])

C1_Witness ==
    \E w \in Procs :
        /\ pc[w] = "returned"
        /\ \E i, j \in 1..Len(losses[w]) :
            /\ losses[w][i].name = N_acc
            /\ losses[w][j].name = N_aux_loss
            /\ losses[w][j].kind = "list"
            /\ loss[w].v = EntryValue(losses[w][j])
            /\ loss[w].v # RInt(0)

\* C2: single worker, a bundle of tensors and lists of tensors: the call
\* returns a mapping that holds every entry under its name with the entry's
\* own reduced value as a plain number, and the total under "loss".
C2_MappingRetainsEveryEntry ==
    (~initialized /\ pc[1] # "start" /\ TensorsAndLists(losses[1])) =>
        /\ pc[1] = "returned"
        /\ \A i \in 1..Len(losses[1]) :
            \E j \in 1..Len(log_vars[1]) :
                log_vars[1][j] = [name |-> losses[1][i].name,
                                  val |-> PyFloat(EntryValue(losses[1][i]))]
        /\ \E j \in 1..Len(log_vars[1]) :
                log_vars[1][j] = [name |-> N_loss,
                                  val |-> PyFloat(ExpectedTotal(losses[1]))]

AllReturned == initialized /\ \A w \in Active : pc[w] = "returned"

LogsAreWorkerMeans ==
    \A w \in Active :
        /\ DictKeys(log_vars[w]) = NameSet(losses[w]) \cup {N_loss}
        /\ \A j \in 1..Len(log_vars[w]) :
            log_vars[w][j].val = PyFloat(WorkerMean(log_vars[w][j].name))

\* C3 as stated: N workers whose bundles have the same set of names all log,
\* for each name, the mean over the workers of the local value of that name.
C3_SameNameSet ==
    (AllReturned /\ \A w \in Active : NameSet(losses[w]) = NameSet(losses[1])) =>
        LogsAreWorkerMeans

\* C3 amended: the same, for bundles with the same names in the same order.
C3_SameNameOrder ==
    (AllReturned /\ \A w \in Active : NameSeq(losses[w]) = NameSeq(losses[1])) =>
        /\ LogsAreWorkerMeans
        /\ \A w \in Active : log_vars[w] = log_vars[1]

C3_Witness ==
    /\ AllReturned
    /\ \A w \in Active : NameSeq(losses[w]) = <<N_loss_cls, N_acc>>
    /\ \E w \in Active : LocalValue(losses[w], N_loss) # LocalValue(losses[1], N_loss)
    /\ \E w \in Active : LocalValue(losses[w], N_acc) # LocalValue(losses[1], N_acc)

\* C4: distributed, the collective is a synchronization point: a worker has a
\* logging value finalized only after every worker gave its value to that
\* collective, so a worker returns only after every worker gave a value to each
\* of its collectives; and once a worker skips the step, no worker returns.
C4_CollectiveSynchronizes ==
    initialized =>
        /\ \A w, v \in Active :
            /\ pc[w] \in {"loop", "all_reduce", "returned"} => Len(sent[v]) >= idx[w] - 1
            /\ pc[w] = "returned" =>
                 (idx[w] = Len(log_vars[w]) + 1 /\ Len(sent[v]) >= Len(log_vars[w])
                    /\ Len(log_vars[w]) >= 1)
        /\ (\E v \in Active : pc[v] = "skipped") =>
               \A w \in Active : pc[w] # "returned"

C4_Witness ==
    /\ initialized
    /\ \E v \in Active : pc[v] = "skipped"
    /\ \E w \in Active : pc[w] = "all_reduce" /\ ~ENABLED AllReduceReturn(w)

FirstOther(b) ==
    b[CHOOSE i \in 1..Len(b) :
        /\ b[i].kind \notin {"tensor", "list"}
        /\ \A j \in 1..(i - 1) : b[j].kind \in {"tensor", "list"}].name

C10_TotalNotAveraged ==
    \A w \in Active :
        (initialized /\ pc[w] \in {"loop", "all_reduce", "returned"}) =>
            /\ loss[w] = TotalLoss(FirstLoop(losses[w]).log_vars)
            /\ loss[w].v = ExpectedTotal(losses[w])

C10_Witness ==
    \E w \in Active :
        /\ AllReturned
        /\ \E j \in 1..Len(log_vars[w]) :
            /\ log_vars[w][j] = [name |-> N_loss, val |-> PyFloat(WorkerMean(N_loss))]
            /\ log_vars[w][j].val.v # loss[w].v

Computations == {"forward_train", "forward_test"}

NumInvoked(fns) == Cardinality({i \in 1..Len(invoked) : invoked[i].fn \in fns})

\* C5: forward with return_loss true and label None raises ValueError and
\* invokes neither computation; any other call invokes exactly one of them,
\* forward_train when return_loss is true and forward_test when it is false.
C5_ForwardRoutes ==
    /\ NumInvoked(Computations) <= 1
    /\ op = "forward" =>
        IF args.return_loss /\ args.label = None_
        THEN outcome = "ValueError" /\ invoked = <<>> /\ outputs = NoValue
        ELSE /\ outcome = "returned"
             /\ invoked =
                  IF args.return_loss
                  THEN <<[fn |-> "forward_train", args |-> <<args.imgs, args.label>>]>>
                  ELSE <<[fn |-> "forward_test", args |-> <<args.imgs>>]>>

C5_Witness ==
    /\ op = "forward"
    /\ args.return_loss
    /\ args.label = None_
    /\ outcome = "ValueError"
    /\ NumInvoked(Computations) = 0

\* C7 as stated: average_clip raises KeyError whenever the key average_clips
\* is absent from the test configuration, the default test_cfg included, and
\* ValueError whenever it is present with a value other than "score", "prob"
\* or None; present with the value None it returns; a failure averages nothing.
C7_MissingKeyIsKeyError ==
    clip_outcome # "none" =>
        IF "average_clips" \notin CfgKeys(test_cfg)
        THEN clip_outcome = "KeyError" /\ clip_result = <<>>
        ELSE IF CfgGet(test_cfg, "average_clips") \notin {Str("score"), Str("prob"), PyNone}
        THEN clip_outcome = "ValueError" /\ clip_result = <<>>
        ELSE clip_outcome = "returned"

\* The scores as whole numbers, as they were given.
Score(i, c) == cls_score[i][c][1]

ClipsOf == 1..Len(cls_score)
ClassesOf == 1..Len(cls_score[1])

\* The softmax of clip i over the classes, at class c.
SoftmaxOfClip(i, c) ==
    RDiv(RInt(2 ^ Score(i, c)), RInt(SeqSum([cc \in ClassesOf |-> 2 ^ Score(i, cc)])))

\* C8: "score" returns the mean of the raw scores over the clips, "prob" the
\* mean over the clips of each clip's softmax over the classes, both as one
\* row (clip dimension of size 1); None returns the scores as they are.
C8_AverageByMode ==
    (~test_cfg.isNone /\ "average_clips" \in CfgKeys(test_cfg) /\ clip_outcome # "none") =>
        LET mode == CfgGet(test_cfg, "average_clips")
        IN  /\ mode = Str("score") =>
                /\ clip_outcome = "returned"
                /\ clip_result =
                     <<[c \in ClassesOf |->
                          RNorm(SeqSum([i \in ClipsOf |-> Score(i, c)]), Len(cls_score))]>>
            /\ mode = Str("prob") =>
                /\ clip_outcome = "returned"
                /\ clip_result =
                     <<[c \in ClassesOf |->
                          RDivInt(RSum([i \in ClipsOf |-> SoftmaxOfClip(i, c)]),
                                  Len(cls_score))]>>
            /\ mode = PyNone =>
                /\ clip_outcome = "returned"
                /\ clip_result = cls_score

C8_Witness ==
    /\ clip_outcome = "returned"
    /\ CfgGet(test_cfg, "average_clips") = Str("prob")
    /\ Len(cls_score) = 2
    /\ Len(cls_score[1]) = 2
    /\ Len(clip_result) = 1
    /\ clip_result # MeanKeepdim(cls_score, 0)
    /\ clip_result # MeanKeepdim(Softmax(cls_score, 0), 0)

\* C9: train_step on a batch with imgs and label calls forward with loss once;
\* when it returns, forward_train's bundle went through _parse_losses once and
\* the record has exactly the fields loss, log_vars (the pair _parse_losses
\* returned) and num_samples, the element count of the batch's first value.
C9_TrainStepRecord ==
    op = "train_step" =>
        LET batch == args.data_batch
            imgs == BatchGet(batch, "imgs")
            label == BatchGet(batch, "label")
        IN  /\ invoked[1] = [fn |-> "forward", args |-> <<imgs, label, TRUE>>]
            /\ NumInvoked({"forward"}) = 1
            /\ label = None_ => outcome = "ValueError"
            /\ label # None_ =>
                /\ Len(invoked) = 3
                /\ invoked[2] = [fn |-> "forward_train", args |-> <<imgs, label>>]
                /\ invoked[3].fn = "_parse_losses"
                /\ LET p == ParseLossesLocal(invoked[3].args[1])
                   IN  IF p.raised # "none" THEN outcome = p.raised
                       ELSE /\ outcome = "returned"
                            /\ DOMAIN outputs = {"loss", "log_vars", "num_samples"}
                            /\ outputs.loss = p.loss
                            /\ outputs.log_vars = p.log_vars
                            /\ outputs.num_samples = batch[1].val.len

C9_Witness ==
    /\ op = "train_step"
    /\ outcome = "returned"
    /\ args.data_batch[1].key = "meta"
    /\ outputs.num_samples # BatchGet(args.data_batch, "imgs").len
    /\ outputs.num_samples # BatchGet(args.data_batch, "label").len
    /\ Len(outputs.log_vars) = 3

====
